---- MODULE Spec2Model ----
(***************************************************************************)
(* The questionnaire dashboard of src/app.py as a state machine.           *)
(*                                                                         *)
(* The program is a Streamlit script: every user interaction reruns the    *)
(* whole script with the current widget state.  The state that survives a  *)
(* rerun is the st.cache_data entry of muat_data, the widget state of the  *)
(* session and what the last run put on the page; the source spreadsheet   *)
(* and the openpyxl installation are the environment.                      *)
(*                                                                         *)
(* Numbers are exact rationals <<num, den>> with den > 0 and NaN is        *)
(* <<0, 0>>; a pandas float column is a sequence of such values.  A raw    *)
(* cell is a string: a Scale code, "x" for a cell that is neither a code   *)
(* nor a number (free text, a blank), "3" for numeric-looking text and     *)
(* "#7" for a cell holding the number 7.                                   *)
(***************************************************************************)
EXTENDS Integers, Sequences, FiniteSets, TLC

VARIABLES file, openpyxl, cache, fileReads, session, out

vars == <<file, openpyxl, cache, fileReads, session, out>>

(***************************************************************************)
(* Bounds of the model.                                                    *)
(***************************************************************************)
MaxRows == 2
MaxLen == 3

\* The question columns of the sheets the model loads.
Questions == <<"Q1", "Q2">>
OneQuestion == <<"Q1">>

(***************************************************************************)
(* Generic helpers.                                                        *)
(***************************************************************************)
Range(s) == {s[i] : i \in DOMAIN s}

RECURSIVE Gcd(_, _)
Gcd(a, b) == IF b = 0 THEN a ELSE Gcd(b, a % b)

NaN == <<0, 0>>
IsNaN(v) == v = NaN
Rat(n, d) == <<n \div Gcd(n, d), d \div Gcd(n, d)>>
Num(n) == <<n, 1>>
RatAdd(a, b) == Rat(a[1] * b[2] + b[1] * a[2], a[2] * b[2])
RatLess(a, b) == a[1] * b[2] < b[1] * a[2]

\* Sequences over S without repetition, of every length.
RECURSIVE Arrangements(_)
Arrangements(S) ==
    {<<>>} \cup UNION {{<<x>> \o t : t \in Arrangements(S \ {x})} : x \in S}

(***************************************************************************)
(* Scale codec (app.py 27-37).                                             *)
(***************************************************************************)
URUTAN_SKALA == <<"SS", "S", "CS", "CTS", "TS", "STS">>

SKOR_MAP ==
    ("SS" :> 6) @@ ("S" :> 5) @@ ("CS" :> 4) @@ ("CTS" :> 3) @@ ("TS" :> 2) @@ ("STS" :> 1)

\* Two digits, zero padded.
TwoDigits(n) == IF n < 10 THEN "0" \o ToString(n) ELSE ToString(n)

\* n/d scaled by `scale` and rounded to the nearest integer, ties to even:
\* what the float formatting of Python does for the values the model reaches.
RoundScaled(v, scale) ==
    LET n == v[1] * scale
        q == n \div v[2]
        r == n % v[2]
    IN IF 2 * r > v[2] \/ (2 * r = v[2] /\ q % 2 = 1) THEN q + 1 ELSE q

\* f"{value:.2f}"
format_skor(value) ==
    IF IsNaN(value) THEN "nan"
    ELSE LET h == RoundScaled(value, 100)
         IN ToString(h \div 100) \o "." \o TwoDigits(h % 100)

\* f"{value:.1f}%"
format_persen(value) ==
    IF IsNaN(value) THEN "nan%"
    ELSE LET t == RoundScaled(value, 10)
         IN ToString(t \div 10) \o "." \o ToString(t % 10) \o "%"

(***************************************************************************)
(* Data frames: the column labels in order, the number of rows, and the    *)
(* cells of each column.                                                   *)
(***************************************************************************)
EmptyFrame == [columns |-> <<>>, nrows |-> 0, col |-> <<>>]

\* An emptiness test that looks at the columns only.
IsEmptyColumnsOnly(df) == Len(df.columns) = 0

\* DataFrame.empty: some axis has length 0.
IsEmpty(df) == df.nrows = 0 \/ Len(df.columns) = 0

Frames(cols, n, vals) ==
    {[columns |-> cols, nrows |-> n, col |-> c] : c \in [Range(cols) -> [1..n -> vals]]}

\* df.drop(columns=[name])
DropColumn(df, name) ==
    [columns |-> SelectSeq(df.columns, LAMBDA c : c # name),
     nrows |-> df.nrows,
     col |-> [c \in (DOMAIN df.col) \ {name} |-> df.col[c]]]

\* df[labels]
Project(df, labels) ==
    [columns |-> labels, nrows |-> df.nrows, col |-> [c \in Range(labels) |-> df.col[c]]]

\* df.values.flatten(): row by row.
Flatten(df) ==
    [k \in 1..(df.nrows * Len(df.columns)) |->
        df.col[df.columns[((k - 1) % Len(df.columns)) + 1]][((k - 1) \div Len(df.columns)) + 1]]

\* A sheet with the respondent column in front of the question columns.
WithPartisipan(df) ==
    [columns |-> <<"Partisipan">> \o df.columns,
     nrows |-> df.nrows,
     col |-> [c \in {"Partisipan"} \cup DOMAIN df.col |->
                IF c = "Partisipan" THEN [i \in 1..df.nrows |-> "R" \o ToString(i)]
                ELSE df.col[c]]]

(***************************************************************************)
(* Numeric helpers of the aggregations.                                    *)
(***************************************************************************)
Inf == <<1, 0>>

\* Float division: x/0 is inf and 0/0 is NaN, as in a pandas column.
Div(a, b) == IF b = 0 THEN (IF a = 0 THEN NaN ELSE Inf) ELSE Rat(a, b)

Times100(v) == IF v[2] = 0 THEN v ELSE Rat(v[1] * 100, v[2])

RECURSIVE RatSum(_)
RatSum(s) == IF s = <<>> THEN Num(0) ELSE RatAdd(Head(s), RatSum(Tail(s)))

Count(s, v) == Cardinality({i \in DOMAIN s : s[i] = v})

\* A mean that counts a NaN cell as a 0 among the cells.
MeanNaAsZero(s) ==
    LET vals == SelectSeq(s, LAMBDA v : ~IsNaN(v))
        total == RatSum(vals)
    IN IF s = <<>> THEN NaN ELSE Rat(total[1], total[2] * Len(s))

\* Mean that skips NaN; NaN when nothing is left.
MeanSkipNa(s) ==
    LET vals == SelectSeq(s, LAMBDA v : ~IsNaN(v))
        total == RatSum(vals)
    IN IF vals = <<>> THEN NaN ELSE Rat(total[1], total[2] * Len(vals))

\* DataFrame.mean(): one mean per column.
ColumnMeans(dfn) == [q \in Range(dfn.columns) |-> MeanSkipNa(dfn.col[q])]

(***************************************************************************)
(* Dataset loader (app.py 52-85).                                          *)
(***************************************************************************)
\* df.replace(SKOR_MAP) on one cell: a mapped code becomes its score, every
\* other cell is left as it is.
ReplaceCell(v) == IF v \in DOMAIN SKOR_MAP THEN <<"num", Num(SKOR_MAP[v])>> ELSE <<"raw", v>>

\* What pd.to_numeric makes of a cell that is not a score yet: a number
\* stays, text that reads as a number is parsed, everything else is coerced
\* to NaN.
ParseNumber(s) == CASE s = "3" -> Num(3) [] s = "#7" -> Num(7) [] OTHER -> NaN

ToNumeric(c) == IF c[1] = "num" THEN c[2] ELSE ParseNumber(c[2])

\* Lines 72-76 on a whole frame.
MakeNumeric(df) ==
    [columns |-> df.columns,
     nrows |-> df.nrows,
     col |-> [q \in DOMAIN df.col |->
                [i \in 1..df.nrows |-> ToNumeric(ReplaceCell(df.col[q][i]))]]]

\* The body of muat_data, run on a cache miss.  kind "stop" is st.stop().
muat_data ==
    IF file.status = "missing"
    THEN [kind |-> "stop", messages |-> <<"error: file tidak ditemukan">>,
          df |-> EmptyFrame, df_numeric |-> EmptyFrame, reads |-> 0]
    ELSE IF ~openpyxl
    THEN [kind |-> "return", messages |-> <<"error: openpyxl belum terinstall">>,
          df |-> EmptyFrame, df_numeric |-> EmptyFrame, reads |-> 1]
    ELSE IF file.status = "corrupt"
    THEN [kind |-> "return", messages |-> <<"error: gagal memuat data">>,
          df |-> EmptyFrame, df_numeric |-> EmptyFrame, reads |-> 1]
    ELSE LET df == IF "Partisipan" \in Range(file.sheet.columns)
                   THEN DropColumn(file.sheet, "Partisipan")
                   ELSE file.sheet
         IN [kind |-> "return", messages |-> <<>>,
             df |-> df, df_numeric |-> MakeNumeric(df), reads |-> 1]

\* @st.cache_data without the memo: the body runs on every call.
CachedLoadNoMemo ==
    LET r == muat_data
    IN [kind |-> r.kind, messages |-> r.messages, df |-> r.df, df_numeric |-> r.df_numeric,
        reads |-> r.reads, served |-> "miss",
        store |-> IF r.kind = "return"
                  THEN <<[messages |-> r.messages, df |-> r.df, df_numeric |-> r.df_numeric]>>
                  ELSE <<>>]

\* @st.cache_data: a stored entry is returned (its messages replayed) without
\* running the body; a call that returns stores its result, a call that
\* stops stores nothing.
CachedLoad ==
    IF cache # <<>>
    THEN [kind |-> "return", messages |-> cache[1].messages, df |-> cache[1].df,
          df_numeric |-> cache[1].df_numeric, reads |-> 0, served |-> "hit",
          store |-> cache]
    ELSE LET r == muat_data
         IN [kind |-> r.kind, messages |-> r.messages, df |-> r.df,
             df_numeric |-> r.df_numeric, reads |-> r.reads, served |-> "miss",
             store |-> IF r.kind = "return"
                       THEN <<[messages |-> r.messages, df |-> r.df,
                               df_numeric |-> r.df_numeric]>>
                       ELSE <<>>]

(***************************************************************************)
(* Filter controller (app.py 103-116).                                     *)
(***************************************************************************)
\* The projection without the fallback to the full column set.
ApplyFilterNoFallback(df, selected_questions) == Project(df, selected_questions)

ApplyFilter(df, selected_questions) ==
    IF selected_questions # <<>> THEN Project(df, selected_questions) ELSE df

(***************************************************************************)
(* Aggregation engine and the five views (app.py 135-423).                 *)
(***************************************************************************)
MENU == <<"Dashboard Utama", "Analisis per Pertanyaan", "Peringkat Skor",
          "Analisis Sentimen/Kategori", "Tabel Data Lengkap">>

\* Series.idxmax() that keeps the last of several maxima.
idxmax_last(labels, val) ==
    LET known == SelectSeq(labels, LAMBDA q : ~IsNaN(val[q]))
    IN IF known = <<>> THEN <<>>
       ELSE <<known[CHOOSE i \in DOMAIN known :
                 /\ \A j \in DOMAIN known : ~RatLess(val[known[i]], val[known[j]])
                 /\ \A j \in DOMAIN known : j > i => RatLess(val[known[j]], val[known[i]])]>>

\* Series.idxmax(): the label of the first maximum, NaN skipped; <<>> stands
\* for the NaN label an all-NaN series gives.
idxmax(labels, val) ==
    LET known == SelectSeq(labels, LAMBDA q : ~IsNaN(val[q]))
    IN IF known = <<>> THEN <<>>
       ELSE <<known[CHOOSE i \in DOMAIN known :
                 /\ \A j \in DOMAIN known : ~RatLess(val[known[i]], val[known[j]])
                 /\ \A j \in DOMAIN known : j < i => RatLess(val[known[j]], val[known[i]])]>>

\* Series.idxmin()
idxmin(labels, val) ==
    LET known == SelectSeq(labels, LAMBDA q : ~IsNaN(val[q]))
    IN IF known = <<>> THEN <<>>
       ELSE <<known[CHOOSE i \in DOMAIN known :
                 /\ \A j \in DOMAIN known : ~RatLess(val[known[j]], val[known[i]])
                 /\ \A j \in DOMAIN known : j < i => RatLess(val[known[i]], val[known[j]])]>>

\* Series.max() and Series.min(): NaN skipped, NaN when nothing is left.
SeriesMax(labels, val) ==
    LET at == idxmax(labels, val) IN IF at = <<>> THEN NaN ELSE val[at[1]]

SeriesMin(labels, val) ==
    LET at == idxmin(labels, val) IN IF at = <<>> THEN NaN ELSE val[at[1]]

\* value_counts() alone: the codes that occur, the most frequent first.
RECURSIVE ByCount(_, _)
ByCount(codes, vals) ==
    IF codes = {} THEN <<>>
    ELSE LET c == CHOOSE x \in codes : \A y \in codes : Count(vals, y) <= Count(vals, x)
         IN <<[Skala |-> c, Jumlah |-> Count(vals, c)]>> \o ByCount(codes \ {c}, vals)

dist_global_no_reindex(df_display) ==
    LET all_vals == SelectSeq(Flatten(df_display), LAMBDA v : v \in Range(URUTAN_SKALA))
    IN ByCount(Range(all_vals), all_vals)

\* Lines 192-198: the valid cells counted per code, in the order of the Scale.
dist_global(df_display) ==
    LET all_vals == SelectSeq(Flatten(df_display), LAMBDA v : v \in Range(URUTAN_SKALA))
    IN [i \in DOMAIN URUTAN_SKALA |->
          [Skala |-> URUTAN_SKALA[i], Jumlah |-> Count(all_vals, URUTAN_SKALA[i])]]

\* Lines 139-185: the KPI cards.
DashboardView(df, df_display, df_num_display) ==
    LET rata_rata_global == MeanSkipNa(Flatten(df_num_display))
        mean_per_q == ColumnMeans(df_num_display)
        best_q == idxmax(df_num_display.columns, mean_per_q)
        best_score == SeriesMax(df_num_display.columns, mean_per_q)
        worst_q == idxmin(df_num_display.columns, mean_per_q)
        worst_score == SeriesMin(df_num_display.columns, mean_per_q)
    IN [kind |-> "dashboard",
        total_responden |-> df.nrows,
        rata_rata_global |-> rata_rata_global,
        metric_global |-> format_skor(rata_rata_global) \o " / 6.00",
        mean_per_q |-> mean_per_q,
        best_q |-> best_q,
        best_score |-> best_score,
        worst_q |-> worst_q,
        worst_score |-> worst_score,
        metric_best |->
            [value |-> IF best_q # <<>> THEN best_q[1] ELSE "-",
             delta |-> IF ~IsNaN(best_score) THEN "Skor: " \o format_skor(best_score) ELSE "-"],
        metric_worst |->
            [value |-> IF worst_q # <<>> THEN worst_q[1] ELSE "-",
             delta |-> IF ~IsNaN(worst_score) THEN "Skor: " \o format_skor(worst_score) ELSE "-"],
        dist_global |-> dist_global(df_display)]

\* Lines 238-241: the counts of every code per question.
PerQuestionView(df_display) ==
    [kind |-> "per_question",
     q_counts |-> [i \in DOMAIN df_display.columns |->
                     [Pertanyaan |-> df_display.columns[i],
                      counts |-> [c \in Range(URUTAN_SKALA) |->
                                    Count(df_display.col[df_display.columns[i]], c)]]]]

\* Before(a, b): a sorts before b; NaN sorts last in both directions.
Before(a, b, ascending) ==
    IF IsNaN(a) THEN FALSE
    ELSE IF IsNaN(b) THEN TRUE
    ELSE IF ascending THEN RatLess(a, b) ELSE RatLess(b, a)

\* sort_values on a handful of rows: a stable insertion sort.
RECURSIVE SortLabels(_, _, _)
SortLabels(labels, val, ascending) ==
    IF labels = <<>> THEN <<>>
    ELSE LET rest == SortLabels(Tail(labels), val, ascending)
             x == Head(labels)
             \* x goes in front of the first element it does not come after
             k == Cardinality({i \in DOMAIN rest : Before(val[rest[i]], val[x], ascending)})
         IN SubSeq(rest, 1, k) \o <<x>> \o SubSeq(rest, k + 1, Len(rest))

\* Lines 284-315.  Of describe() the row count, mean, min and max are kept;
\* the standard deviation and the quartiles are not rational and no
\* property reads them.
RankingView(df_num_display) ==
    LET means == ColumnMeans(df_num_display)
        order == SortLabels(df_num_display.columns, means, TRUE)
        byMean == SortLabels(df_num_display.columns, means, FALSE)
        cells(q) == SelectSeq(df_num_display.col[q], LAMBDA v : ~IsNaN(v))
    IN [kind |-> "ranking",
        avg_scores |-> [i \in DOMAIN order |->
                          [Pertanyaan |-> order[i],
                           Rata_rata_Skor |-> means[order[i]],
                           text |-> format_skor(means[order[i]])]],
        stats_df |-> [i \in DOMAIN byMean |->
                        LET q == byMean[i]
                            vals == [k \in DOMAIN cells(q) |-> cells(q)[k]]
                            idx == [k \in DOMAIN vals |-> k]
                        IN [Pertanyaan |-> q,
                            count |-> Len(vals),
                            mean |-> means[q],
                            min |-> SeriesMin(idx, vals),
                            max |-> SeriesMax(idx, vals)]]]

\* hitung_kategori without 'CTS' in the negative bucket.
hitung_kategori_no_cts(row) ==
    [Positif |-> Count(row, "SS") + Count(row, "S"),
     Netral |-> Count(row, "CS"),
     Negatif |-> Count(row, "TS") + Count(row, "STS")]

\* Lines 332-336.
hitung_kategori(row) ==
    [Positif |-> Count(row, "SS") + Count(row, "S"),
     Netral |-> Count(row, "CS"),
     Negatif |-> Count(row, "CTS") + Count(row, "TS") + Count(row, "STS")]

\* The total left as it is.
KeepTotal(total) == total

\* Line 346: cat_per_q['Total'].replace(0, 1)
GuardTotal(total) == IF total = 0 THEN 1 ELSE total

\* Lines 338-391.
SentimentView(df_display) ==
    LET cat(q) == hitung_kategori(df_display.col[q])
        total(q) == GuardTotal(cat(q).Positif + cat(q).Netral + cat(q).Negatif)
        pct(count, q) == Times100(Div(count, total(q)))
        cat_per_q ==
            [i \in DOMAIN df_display.columns |->
                LET q == df_display.columns[i]
                IN [Pertanyaan |-> q,
                    Positif |-> cat(q).Positif,
                    Netral |-> cat(q).Netral,
                    Negatif |-> cat(q).Negatif,
                    Total |-> total(q),
                    Pct_Positif |-> pct(cat(q).Positif, q),
                    Pct_Netral |-> pct(cat(q).Netral, q),
                    Pct_Negatif |-> pct(cat(q).Negatif, q)]]
        column(name) == [i \in DOMAIN cat_per_q |-> Num(cat_per_q[i][name])]
    IN [kind |-> "sentiment",
        cat_per_q |-> cat_per_q,
        text |-> [i \in DOMAIN cat_per_q |->
                    [Positif |-> format_persen(cat_per_q[i].Pct_Positif),
                     Netral |-> format_persen(cat_per_q[i].Pct_Netral),
                     Negatif |-> format_persen(cat_per_q[i].Pct_Negatif)]],
        total_pos |-> RatSum(column("Positif"))[1],
        total_neu |-> RatSum(column("Netral"))[1],
        total_neg |-> RatSum(column("Negatif"))[1]]

\* One cell of the CSV text: a number is written as its digits.
CsvCell(v) == IF v = "#7" THEN "7" ELSE v

\* Lines 411-423: header row included, index excluded.
TableView(df, df_display) ==
    [kind |-> "table",
     total_rows |-> df.nrows,
     total_columns |-> Len(df.columns),
     shown |-> df_display,
     csv |-> <<df_display.columns>> \o
             [r \in 1..df_display.nrows |->
                [i \in DOMAIN df_display.columns |->
                    CsvCell(df_display.col[df_display.columns[i]][r])]]]

View(menu, df, df_display, df_num_display) ==
    CASE menu = MENU[1] -> DashboardView(df, df_display, df_num_display)
      [] menu = MENU[2] -> PerQuestionView(df_display)
      [] menu = MENU[3] -> RankingView(df_num_display)
      [] menu = MENU[4] -> SentimentView(df_display)
      [] menu = MENU[5] -> TableView(df, df_display)

(***************************************************************************)
(* One run of the script (app.py 88-130, then the selected view).          *)
(***************************************************************************)
NoView == [kind |-> "none"]

NotRun ==
    [halt |-> "not_run", messages |-> <<>>, served |-> "", filtered |-> FALSE,
     df_display |-> EmptyFrame, df_num_display |-> EmptyFrame, menu |-> "", view |-> NoView]

Halted(why, load, messages) ==
    [halt |-> why, messages |-> messages, served |-> load.served, filtered |-> FALSE,
     df_display |-> EmptyFrame, df_num_display |-> EmptyFrame, menu |-> "", view |-> NoView]

\* The run with the widget state sess (<<>>: the widgets do not exist yet and
\* take their defaults): the new cache, the reads of the file, the widget
\* state and the page.
Script(sess) ==
    LET load == CachedLoad
    IN IF load.kind = "stop"
       THEN [cache |-> load.store, reads |-> load.reads, session |-> sess,
             out |-> Halted("stopped_in_load", load, load.messages)]
       ELSE IF IsEmpty(load.df)
       THEN [cache |-> load.store, reads |-> load.reads, session |-> sess,
             out |-> Halted("stopped_empty", load,
                            load.messages \o <<"warning: data kosong atau error saat loading">>)]
       ELSE LET all_questions == load.df.columns
                w == IF sess = <<>>
                     THEN [selected_questions |-> all_questions, menu |-> MENU[1]]
                     ELSE sess[1]
                df_display == ApplyFilter(load.df, w.selected_questions)
                df_num_display == ApplyFilter(load.df_numeric, w.selected_questions)
            IN [cache |-> load.store, reads |-> load.reads, session |-> <<w>>,
                out |-> [halt |-> "none", messages |-> load.messages,
                         served |-> load.served, filtered |-> TRUE,
                         df_display |-> df_display, df_num_display |-> df_num_display,
                         menu |-> w.menu,
                         view |-> View(w.menu, load.df, df_display, df_num_display)]]

Run(sess) ==
    LET r == Script(sess)
    IN /\ cache' = r.cache
       /\ fileReads' = fileReads + r.reads
       /\ session' = r.session
       /\ out' = r.out
       /\ UNCHANGED <<file, openpyxl>>

(***************************************************************************)
(* Actions.                                                                *)
(***************************************************************************)
\* The page is opened or refreshed: the script runs with the widgets as
\* they are.
Rerun == Run(session)

\* The user changes the question filter; the script reruns.
ChangeFilter ==
    /\ session # <<>>
    /\ \E sel \in Arrangements(Range(cache[1].df.columns)) :
          /\ sel # session[1].selected_questions
          /\ Run(<<[session[1] EXCEPT !.selected_questions = sel]>>)

\* The user picks another view; the script reruns.
ChangeMenu ==
    /\ session # <<>>
    /\ \E m \in Range(MENU) :
          /\ m # session[1].menu
          /\ Run(<<[session[1] EXCEPT !.menu = m]>>)

\* The environment: the source file is removed, damaged or emptied.
DeleteFile ==
    /\ file.status # "missing"
    /\ file' = [status |-> "missing", sheet |-> EmptyFrame]
    /\ UNCHANGED <<openpyxl, cache, fileReads, session, out>>

CorruptFile ==
    /\ file.status = "ok"
    /\ file' = [status |-> "corrupt", sheet |-> EmptyFrame]
    /\ UNCHANGED <<openpyxl, cache, fileReads, session, out>>

TruncateFile ==
    /\ file.status = "ok"
    /\ file.sheet.nrows > 0
    /\ file' = [file EXCEPT !.sheet =
                  [columns |-> file.sheet.columns, nrows |-> 0,
                   col |-> [c \in DOMAIN file.sheet.col |-> <<>>]]]
    /\ UNCHANGED <<openpyxl, cache, fileReads, session, out>>

(***************************************************************************)
(* Initial states and specifications.                                      *)
(***************************************************************************)
Codes == Range(URUTAN_SKALA)

\* Cells of the sheets of each specification.
MainValues == {"SS", "x"}
RankValues == {"SS", "TS", "x"}
FewValues == {"SS", "STS", "x"}
TableValues == Codes \cup {"x"}
ColumnValues == Codes \cup {"x", "3", "#7"}

\* Frames whose column cols[i] holds cells of vals[i].
FramesOf(cols, n, vals) ==
    {[columns |-> cols, nrows |-> n, col |-> c] :
        c \in {f \in [Range(cols) -> UNION {[1..n -> vals[i]] : i \in DOMAIN cols}] :
                 \A i \in DOMAIN cols : f[cols[i]] \in [1..n -> vals[i]]}}

Fresh ==
    /\ cache = <<>>
    /\ fileReads = 0
    /\ session = <<>>
    /\ out = NotRun

\* Every kind of source and of user action, small sheets of two questions
\* with or without the respondent column.
Init ==
    /\ openpyxl \in BOOLEAN
    /\ file \in {[status |-> "missing", sheet |-> EmptyFrame],
                 [status |-> "corrupt", sheet |-> EmptyFrame]}
                \cup {[status |-> "ok", sheet |-> df] :
                        df \in UNION {Frames(Questions, n, MainValues) : n \in 0..MaxRows}}
                \cup {[status |-> "ok", sheet |-> WithPartisipan(df)] :
                        df \in UNION {Frames(Questions, n, MainValues) : n \in 0..MaxRows}}
    /\ Fresh

Next == Rerun \/ ChangeFilter \/ ChangeMenu \/ DeleteFile \/ CorruptFile \/ TruncateFile

Spec == Init /\ [][Next]_vars

\* Sheets of two questions with several scores, the filter changed on the
\* overview.
InitRank ==
    /\ openpyxl = TRUE
    /\ file \in {[status |-> "ok", sheet |-> WithPartisipan(df)] :
                    df \in UNION {Frames(Questions, n, RankValues) : n \in 1..MaxRows}}
    /\ Fresh

NextRank == Rerun \/ ChangeFilter

SpecRank == InitRank /\ [][NextRank]_vars

\* Sheets of two questions, the first over the whole Scale, on the overview.
InitTable ==
    /\ openpyxl = TRUE
    /\ file \in {[status |-> "ok", sheet |-> WithPartisipan(df)] :
                    df \in UNION {FramesOf(Questions, n, <<TableValues, FewValues>>) :
                                    n \in 1..MaxRows}}
    /\ Fresh

NextTable == Rerun

SpecTable == InitTable /\ [][NextTable]_vars

\* Sheets of one question over every kind of cell, every view.
InitColumn ==
    /\ openpyxl = TRUE
    /\ file \in {[status |-> "ok", sheet |-> WithPartisipan(df)] :
                    df \in UNION {Frames(OneQuestion, n, ColumnValues) : n \in 1..MaxLen}}
    /\ Fresh

NextColumn == Rerun \/ ChangeMenu

SpecColumn == InitColumn /\ [][NextColumn]_vars

(***************************************************************************)
(* Properties.                                                             *)
(***************************************************************************)
ScaleScore(v) ==
    CASE v = "SS" -> 6 [] v = "S" -> 5 [] v = "CS" -> 4
      [] v = "CTS" -> 3 [] v = "TS" -> 2 [] v = "STS" -> 1

SixCodes == {"SS", "S", "CS", "CTS", "TS", "STS"}

\* The cells of column q of df that lie in the set S.
CellsIn(df, q, S) == {k \in 1..df.nrows : df.col[q][k] \in S}

RECURSIVE NumeratorSum(_, _)
NumeratorSum(column, S) ==
    IF S = {} THEN 0
    ELSE LET k == CHOOSE x \in S : TRUE
         IN column[k][1] + NumeratorSum(column, S \ {k})

\* C1: every cell of the loaded numeric table is the Scale score of the raw
\* cell at the same row and column when that cell is one of the six codes,
\* and is missing for every other raw cell, numbers and numeric-looking
\* text included; the respondent column is in neither table.
C1_NumericIsScoreOrMissing ==
    \A e \in Range(cache) :
        /\ "Partisipan" \notin Range(e.df.columns)
        /\ e.df_numeric.columns = e.df.columns
        /\ e.df_numeric.nrows = e.df.nrows
        /\ \A q \in Range(e.df.columns) : \A k \in 1..e.df.nrows :
              e.df_numeric.col[q][k] =
                 IF e.df.col[q][k] \in SixCodes
                 THEN <<ScaleScore(e.df.col[q][k]), 1>>
                 ELSE <<0, 0>>

\* The load of the next run fails or gives a table without rows.
LoadFailsOrEmpty ==
    IF cache # <<>> THEN cache[1].df.nrows = 0
    ELSE file.status # "ok" \/ ~openpyxl \/ file.sheet.nrows = 0

\* C2: a run of the script whose load fails (file missing, openpyxl missing,
\* unreadable file) or gives a table with zero rows halts with a message on
\* the page, before the filter is applied and with no view evaluated.
C2_FailedLoadHalts ==
    [][(file' = file /\ LoadFailsOrEmpty) =>
          /\ out'.halt \in {"stopped_in_load", "stopped_empty"}
          /\ out'.messages # <<>>
          /\ ~out'.filtered
          /\ out'.view = [kind |-> "none"]
          /\ out'.df_display.columns = <<>>
          /\ out'.df_num_display.columns = <<>>]_vars

\* A sheet with columns and no rows was loaded and the run halted on it.
C2_Witness ==
    /\ out.halt = "stopped_empty"
    /\ cache # <<>>
    /\ Len(cache[1].df.columns) > 0
    /\ cache[1].df.nrows = 0

\* C3: after a run that reached the filter, an empty selection leaves both
\* active tables with the columns of the loaded tables, in their order; a
\* non-empty selection projects both onto exactly the selected columns with
\* all rows kept; the active tables never have an empty column set and the
\* raw and the numeric one always have the same columns.
C3_FilterFallsBackToAllColumns ==
    out.halt = "none" =>
        LET sel == session[1].selected_questions
            e == cache[1]
        IN /\ sel = <<>> =>
                /\ out.df_display.columns = e.df.columns
                /\ out.df_num_display.columns = e.df_numeric.columns
           /\ sel # <<>> =>
                /\ out.df_display.columns = sel
                /\ out.df_num_display.columns = sel
           /\ out.df_display.nrows = e.df.nrows
           /\ out.df_num_display.nrows = e.df_numeric.nrows
           /\ \A q \in Range(out.df_display.columns) :
                /\ out.df_display.col[q] = e.df.col[q]
                /\ out.df_num_display.col[q] = e.df_numeric.col[q]
           /\ out.df_display.columns # <<>>
           /\ out.df_display.columns = out.df_num_display.columns

\* The user emptied the filter and the page shows every column.
C3_Witness ==
    /\ out.halt = "none"
    /\ session[1].selected_questions = <<>>
    /\ Len(out.df_display.columns) = 2

\* C4: in the sentiment view, a question without a valid cell has its total
\* replaced by 1 and three percentages of 0; a question with a valid cell has
\* each percentage equal to count * 100 / (positive + neutral + negative),
\* and the three sum to 100.
C4_PercentagesGuarded ==
    out.view.kind = "sentiment" =>
        \A i \in DOMAIN out.view.cat_per_q :
            LET r == out.view.cat_per_q[i]
                n == r.Positif + r.Netral + r.Negatif
                exact(p, count) == p[2] > 0 /\ p[1] * n = count * 100 * p[2]
            IN IF n = 0
               THEN /\ r.Total = 1
                    /\ r.Pct_Positif = <<0, 1>>
                    /\ r.Pct_Netral = <<0, 1>>
                    /\ r.Pct_Negatif = <<0, 1>>
               ELSE /\ r.Total = n
                    /\ exact(r.Pct_Positif, r.Positif)
                    /\ exact(r.Pct_Netral, r.Netral)
                    /\ exact(r.Pct_Negatif, r.Negatif)
                    /\ RatAdd(RatAdd(r.Pct_Positif, r.Pct_Netral), r.Pct_Negatif) = <<100, 1>>

\* The sentiment view of a question that has rows and no valid cell.
C4_Witness ==
    /\ out.view.kind = "sentiment"
    /\ out.df_display.nrows > 0
    /\ \E i \in DOMAIN out.view.cat_per_q :
          /\ out.view.cat_per_q[i].Positif + out.view.cat_per_q[i].Netral
                + out.view.cat_per_q[i].Negatif = 0
          /\ out.view.cat_per_q[i].Pct_Negatif = <<0, 1>>

\* The number of cells of df equal to v.
CellCount(df, v) ==
    Cardinality({c \in Range(df.columns) \X (1..df.nrows) : df.col[c[1]][c[2]] = v})

\* C5: the global distribution of the overview has exactly six entries, one
\* per code in the order SS, S, CS, CTS, TS, STS, a code that does not occur
\* with count 0; each count is the number of cells of the active raw table
\* equal to the code, and the six counts sum to the number of cells that
\* hold a valid code.
C5_GlobalDistribution ==
    out.view.kind = "dashboard" =>
        LET d == out.view.dist_global
            order == <<"SS", "S", "CS", "CTS", "TS", "STS">>
            valid == {c \in Range(out.df_display.columns) \X (1..out.df_display.nrows) :
                        out.df_display.col[c[1]][c[2]] \in SixCodes}
        IN /\ Len(d) = 6
           /\ \A i \in 1..6 :
                /\ d[i].Skala = order[i]
                /\ d[i].Jumlah = CellCount(out.df_display, order[i])
           /\ d[1].Jumlah + d[2].Jumlah + d[3].Jumlah + d[4].Jumlah + d[5].Jumlah + d[6].Jumlah
                = Cardinality(valid)

\* An overview with a code that occurs twice, a code that does not occur and
\* a cell outside the Scale.
C5_Witness ==
    /\ out.view.kind = "dashboard"
    /\ \E i \in 1..6 : out.view.dist_global[i].Jumlah = 2
    /\ \E i \in 1..6 : out.view.dist_global[i].Jumlah = 0
    /\ CellCount(out.df_display, "x") > 0

\* C6: in the sentiment view, positive counts the cells in {SS, S}, neutral
\* those in {CS}, negative those in {CTS, TS, STS}; their sum is at most the
\* number of cells of the question and equals it exactly when every cell is
\* a valid code.
C6_SentimentCounts ==
    out.view.kind = "sentiment" =>
        /\ Len(out.view.cat_per_q) = Len(out.df_display.columns)
        /\ \A i \in DOMAIN out.view.cat_per_q :
            LET r == out.view.cat_per_q[i]
                q == out.df_display.columns[i]
                n == r.Positif + r.Netral + r.Negatif
            IN /\ r.Pertanyaan = q
               /\ r.Positif = Cardinality(CellsIn(out.df_display, q, {"SS", "S"}))
               /\ r.Netral = Cardinality(CellsIn(out.df_display, q, {"CS"}))
               /\ r.Negatif = Cardinality(CellsIn(out.df_display, q, {"CTS", "TS", "STS"}))
               /\ n <= out.df_display.nrows
               /\ (n = out.df_display.nrows) <=>
                     (\A k \in 1..out.df_display.nrows : out.df_display.col[q][k] \in SixCodes)

\* The sentiment view of a question with a CTS cell and a cell outside the
\* Scale.
C6_Witness ==
    /\ out.view.kind = "sentiment"
    /\ \E i \in DOMAIN out.view.cat_per_q :
          /\ out.view.cat_per_q[i].Negatif > 0
          /\ CellsIn(out.df_display, out.view.cat_per_q[i].Pertanyaan, {"CTS"}) # {}
          /\ out.view.cat_per_q[i].Positif + out.view.cat_per_q[i].Netral
                + out.view.cat_per_q[i].Negatif < out.df_display.nrows

\* The mean of question q is the sum of its non-missing cells over their
\* number, and NaN when there is none.
IsMeanOf(m, q) ==
    LET column == out.df_num_display.col[q]
        S == {k \in DOMAIN column : column[k] # <<0, 0>>}
    IN /\ \A k \in S : column[k][2] = 1
       /\ IF S = {} THEN m = <<0, 0>>
          ELSE m[2] > 0 /\ m[1] * Cardinality(S) = NumeratorSum(column, S) * m[2]
       /\ out.df_display.col[q] = <<"SS", "S", "TS">> => m = <<13, 3>>
       /\ out.df_display.col[q] = <<"CS", "CS", "STS">> => m = <<3, 1>>

\* C7: the mean score of every question of the active numeric table, on the
\* overview and in the ranking, is the sum of its non-missing cells divided
\* by their number; it is undefined when every cell is missing.
\* [SS, S, TS] gives 13/3 and [CS, CS, STS] gives 3.
C7_MeanIgnoresMissing ==
    /\ out.view.kind = "dashboard" =>
          \A q \in Range(out.df_num_display.columns) : IsMeanOf(out.view.mean_per_q[q], q)
    /\ out.view.kind = "ranking" =>
          /\ {out.view.avg_scores[i].Pertanyaan : i \in DOMAIN out.view.avg_scores}
                = Range(out.df_num_display.columns)
          /\ \A i \in DOMAIN out.view.avg_scores :
                IsMeanOf(out.view.avg_scores[i].Rata_rata_Skor, out.view.avg_scores[i].Pertanyaan)

\* An overview of a question with a missing cell between two scores.
C7_Witness ==
    /\ out.view.kind = "dashboard"
    /\ out.df_display.col["Q1"] = <<"SS", "x", "TS">>
    /\ out.view.mean_per_q["Q1"] = <<4, 1>>

\* a <= b for two defined means.
MeanLeq(a, b) == a[1] * b[2] <= b[1] * a[2]

\* C8: on the overview, when some question has a defined mean, the best
\* question has the greatest defined mean and the worst the least, with
\* those means as scores; of several questions with that mean the first in
\* the order of the active columns is taken, and a question with an
\* undefined mean is never taken.
C8_BestWorstFirstOccurrence ==
    out.view.kind = "dashboard" =>
        LET cols == out.df_num_display.columns
            m == out.view.mean_per_q
            D == {i \in DOMAIN cols : m[cols[i]] # <<0, 0>>}
        IN D # {} =>
             /\ \E b \in D :
                  /\ out.view.best_q = <<cols[b]>>
                  /\ out.view.best_score = m[cols[b]]
                  /\ \A j \in D : MeanLeq(m[cols[j]], m[cols[b]])
                  /\ \A j \in D : j < b => m[cols[j]] # m[cols[b]]
             /\ \E w \in D :
                  /\ out.view.worst_q = <<cols[w]>>
                  /\ out.view.worst_score = m[cols[w]]
                  /\ \A j \in D : MeanLeq(m[cols[w]], m[cols[j]])
                  /\ \A j \in D : j < w => m[cols[j]] # m[cols[w]]

\* With the filter in the order Q2, Q1 and the same mean for both, Q2 is the
\* best question.
C8_Witness ==
    /\ out.view.kind = "dashboard"
    /\ out.df_num_display.columns = <<"Q2", "Q1">>
    /\ out.view.mean_per_q["Q1"] = out.view.mean_per_q["Q2"]
    /\ out.view.mean_per_q["Q1"] # <<0, 0>>
    /\ out.view.best_q = <<"Q2">>

\* C9: an undefined mean, global mean or best/worst question is shown as a
\* placeholder (a dash, written "-" here), never as a raw not-a-number value.
C9_UndefinedShownAsPlaceholder ==
    /\ out.view.kind = "dashboard" =>
          /\ out.view.rata_rata_global = <<0, 0>> => out.view.metric_global = "-"
          /\ out.view.best_q = <<>> => out.view.metric_best.value = "-"
          /\ out.view.worst_q = <<>> => out.view.metric_worst.value = "-"
    /\ out.view.kind = "ranking" =>
          \A i \in DOMAIN out.view.avg_scores :
             out.view.avg_scores[i].Rata_rata_Skor = <<0, 0>> =>
                out.view.avg_scores[i].text = "-"

\* C10: once a load has returned, no later step changes the cached pair or
\* reads the file again, and every later page shows the cells of the cached
\* tables.
C10_CacheIsReadOnly ==
    [][cache # <<>> =>
          /\ cache' = cache
          /\ fileReads' = fileReads
          /\ (file' = file /\ out'.halt = "none") =>
                \A q \in Range(out'.df_display.columns) :
                   /\ out'.df_display.col[q] = cache[1].df.col[q]
                   /\ out'.df_num_display.col[q] = cache[1].df_numeric.col[q]]_vars

\* A page served from the cache after the file was read once and is gone.
C10_Witness ==
    /\ out.halt = "none"
    /\ out.served = "hit"
    /\ fileReads = 1
    /\ file.status = "missing"

====
